---- MODULE Spec2Model ----
(***************************************************************************)
(* Model of the fetchx download manager core:                              *)
(*   - the segmenter (EnhancedDownloader._create_segments),                *)
(*   - the download queue (DownloadQueue over the queue_items table),      *)
(*   - one download coordinator with its segment streamers, pause and      *)
(*     resume from the session record.                                     *)
(* Each part has its own specification; the variables of the other parts   *)
(* keep their initial values.                                              *)
(***************************************************************************)
EXTENDS Integers, Sequences, FiniteSets, TLC

VARIABLES
    \* ---- segmenter
    segTotal,      \* download_info.total_size (0 stands for None / 0: "not total_size")
    segRanges,     \* download_info.supports_ranges
    segN,          \* num_connections
    segOut,        \* the list returned by _create_segments (<<>> before the call)
    \* ---- queue
    db,            \* queue_items table in created_at order: Seq of [id, status]
    used,          \* number of ids generated by uuid4 so far
    active,        \* keys of DownloadQueue._active_downloads
    tasks,         \* DownloadQueue._download_tasks: item id -> state of the registered task
    orphans,       \* live coordinator tasks that _download_tasks no longer holds: <<item id, state>> -> count
    isRunning,     \* DownloadQueue._is_running
    maxConcurrent, \* DownloadQueue._max_concurrent (queue.max_concurrent_downloads)
    leaked,        \* item ids with a staging directory left behind by a cancelled coordinator
    \* ---- one download
    dTotal,        \* size of the file on the server (Content-Length of the probe)
    dRanges,       \* the server honours Range (and says so in Accept-Ranges)
    dN,            \* max_connections passed to download()
    dPc,           \* where the coordinator is
    dSegs,         \* EnhancedDownloader.segments
    dStats,        \* EnhancedDownloader.stats.downloaded
    dStr,          \* the segment tasks (download_segment), one per segment
    dParts,        \* the part-files in the staging directory
    dStaging,      \* the staging directory exists
    dDest,         \* the destination file
    dSession,      \* the session record of this download
    dFaults,       \* network errors so far, counted up to MaxFaults
    dPauses,       \* calls of pause() that found segment tasks to cancel
    dItemPaused,   \* pause_download on the queue item of this download: "no", "requested", "handled"
    dFetched,      \* bytes streamed since resume()
    dAtPause,      \* sum of the part-file sizes when pause() had completed
    \* ---- merger
    mParts,        \* the files named by part_files, in list order
    mOut,          \* the output file
    mRes,          \* "none" before merge_parts, then "returned" or "raised"
    mTotal,        \* sum of the part-file lengths found by merge_parts (-1 before)
    mPc,           \* the step the merge is at
    mTemp,         \* the "<output>.tmp" sibling
    mIn,           \* the part-files as they were when merge_parts was called
    \* ---- observations
    lookup         \* the last QueueManager.get_item call: argument, rows matching, result

segVars   == <<segTotal, segRanges, segN, segOut>>
queueVars == <<db, used, active, tasks, orphans, isRunning, maxConcurrent, leaked>>
dlVars    == <<dTotal, dRanges, dN, dPc, dSegs, dStats, dStr, dParts, dStaging,
               dDest, dSession, dFaults, dPauses, dItemPaused, dFetched, dAtPause>>
mergeVars == <<mParts, mOut, mRes, mTotal, mPc, mTemp, mIn>>
lookVars  == <<lookup>>
vars      == <<segVars, queueVars, dlVars, mergeVars, lookVars>>

(***************************************************************************)
(* Bounds                                                                  *)
(***************************************************************************)
MaxSize  == 12     \* total sizes 1..MaxSize are enumerated for the segmenter
MaxConn  == 4      \* connection counts 1..MaxConn
MaxItems == 2      \* number of add_download calls
LiveItems == 4     \* number of add_download calls in the fair specification
FailItems == 3     \* number of add_download calls in the fair specification with failures
MaxTasks == 3      \* coordinator tasks alive at the same time
MaxK     == 2      \* queue.max_concurrent_downloads is set to a value in 1..MaxK
MaxDlSize == 3     \* small files of 1..MaxDlSize bytes are downloaded
MaxDlConn == 2     \* with 1..MaxDlConn connections
MaxRetries == 1    \* download.max_retries is set to this value
MaxParts == 3      \* part-files handed to merge_parts
MaxOrderParts == 11 \* part-files of one download handed to merge_parts in some order
MaxPartLen == 2    \* bytes in a part-file handed to merge_parts
MaxFaults == 2     \* network errors of a download are counted up to this number

Min(a, b) == IF a < b THEN a ELSE b

RECURSIVE SumSeq(_)
SumSeq(s) == IF s = <<>> THEN 0 ELSE Head(s) + SumSeq(Tail(s))

(***************************************************************************)
(* Segmenter                                                               *)
(***************************************************************************)
\* connection.py DownloadSegment, with its defaults
DownloadSegment(id, start, end) ==
    [id |-> id, start |-> start, end |-> end, downloaded |-> 0,
     completed |-> FALSE, retry_count |-> 0, is_paused |-> FALSE,
     file_path |-> <<"temp_dir", "filename.part", id>>]

\* the multi-segment branch without "last segment gets remainder"
create_segments_noRemainder(total, ranges, n) ==
    IF total = 0
    THEN << DownloadSegment(0, 0, -1) >>
    ELSE IF ~ranges \/ n <= 1
    THEN << DownloadSegment(0, 0, total - 1) >>
    ELSE LET segment_size == total \div n
         IN  [i \in 1..n |->
                DownloadSegment(i - 1, (i - 1) * segment_size,
                                (i - 1) * segment_size + segment_size - 1)]

\* downloader.py _create_segments
create_segments(total, ranges, n) ==
    IF total = 0
    THEN << DownloadSegment(0, 0, -1) >>
    ELSE IF ~ranges \/ n <= 1
    THEN << DownloadSegment(0, 0, total - 1) >>
    ELSE LET segment_size == total \div n
         IN  [i \in 1..n |->
                DownloadSegment(i - 1, (i - 1) * segment_size,
                                IF i = n THEN total - 1
                                ELSE (i - 1) * segment_size + segment_size - 1)]

SegSizes == (0..MaxSize) \cup {10000000, 10000001}

SegInit ==
    /\ segTotal \in SegSizes
    /\ segRanges \in BOOLEAN
    /\ segN \in 1..MaxConn
    /\ segOut = <<>>

CreateSegments ==
    /\ segOut = <<>>
    /\ segOut' = create_segments(segTotal, segRanges, segN)
    /\ UNCHANGED <<segTotal, segRanges, segN>>
    /\ UNCHANGED <<queueVars, dlVars, mergeVars, lookVars>>

SegSize(s) == s.end - s.start + 1

(***************************************************************************)
(* Queue                                                                   *)
(***************************************************************************)
\* the ids uuid4 hands out, in this order (some of them share a prefix)
NewIds == << <<1, 1>>, <<1, 2>>, <<2, 1>>, <<2, 2>>, <<3, 1>> >>
ItemIds == {NewIds[k] : k \in 1..Len(NewIds)}
\* what a caller may pass as item_id: a non-empty prefix of an id
IdArgs == {SubSeq(id, 1, n) : id \in ItemIds, n \in {1, 2}}

\* SQL "id LIKE 'arg%'"
Like(id, arg) == /\ Len(arg) <= Len(id)
                 /\ \A k \in 1..Len(arg) : id[k] = arg[k]


MatchesIn(d, arg) == {k \in 1..Len(d) : Like(d[k].id, arg)}

\* database.py update_queue_item: UPDATE ... SET status WHERE id LIKE 'arg'
\* (the argument is bound as it is, without '%': only the row whose id is
\* arg matches)
update_item(d, arg, status) ==
    [k \in 1..Len(d) |-> IF d[k].id = arg
                         THEN [d[k] EXCEPT !.status = status] ELSE d[k]]

\* the failure recorded without its message
update_failed_noMessage(d, arg, msg) ==
    [k \in 1..Len(d) |-> IF d[k].id = arg
                         THEN [d[k] EXCEPT !.status = "failed"] ELSE d[k]]

\* update_item(id, status=FAILED, error_message=str(e), ...)
update_failed(d, arg, msg) ==
    [k \in 1..Len(d) |-> IF d[k].id = arg
                         THEN [d[k] EXCEPT !.status = "failed", !.error_message = msg]
                         ELSE d[k]]

\* str(e) of what Downloader.download raises: NetworkException("Failed to
\* get file info: ...") from the probe, DownloadException("Download failed:
\* ...") from its except branch
DownloadErrors == {"Failed to get file info", "Download failed"}
\* str(e) of the OSError of the constructor's ensure_directory
CtorError == "Permission denied"

\* database.py remove_queue_item: DELETE ... WHERE id LIKE 'arg%'
remove_item(d, arg) == SelectSeq(d, LAMBDA r : ~Like(r.id, arg))

\* database.py get_queue_item: SELECT ... WHERE id LIKE 'arg%' LIMIT 1.
\* Without ORDER BY the row returned among several is whichever the engine
\* meets first.  queue.py get_item returns it, or None when there is none.
NoLookup == [arg |-> <<>>, n |-> 0, res |-> "none", id |-> <<>>]
get_item(d, arg) ==
    IF MatchesIn(d, arg) = {}
    THEN {[arg |-> arg, n |-> 0, res |-> "not_found", id |-> <<>>]}
    ELSE {[arg |-> arg, n |-> Cardinality(MatchesIn(d, arg)), res |-> "found",
           id |-> d[k].id] : k \in MatchesIn(d, arg)}

\* queue.py _has_queued_downloads / _get_next_queued_item:
\* list_items(QUEUED) is ORDER BY created_at, the first one is taken
QueuedIdx(d) == {k \in 1..Len(d) : d[k].status = "queued"}
has_queued_downloads(d) == QueuedIdx(d) # {}
get_next_queued_item(d) ==
    CHOOSE k \in QueuedIdx(d) : \A j \in QueuedIdx(d) : k <= j

Remove(f, x) == [y \in DOMAIN f \ {x} |-> f[y]]
Put(f, x, v) == [y \in DOMAIN f \cup {x} |-> IF y = x THEN v ELSE f[y]]
EmptyFn == [y \in {} |-> 0]

\* a coordinator task is "new" until its first step, then "running";
\* "cancelling" once task.cancel() was called on it while running; "done"
LiveSt == {"new", "running", "cancelling"}
OrphanKeys == ItemIds \X LiveSt
NoOrphans == [o \in OrphanKeys |-> 0]

RECURSIVE SumOver(_, _)
SumOver(f, S) ==
    IF S = {} THEN 0
    ELSE LET x == CHOOSE y \in S : TRUE IN f[x] + SumOver(f, S \ {x})

\* the coordinator tasks that are not done: those registered in
\* _download_tasks and those no longer reachable through it
LiveRegistered(tk) == {i \in DOMAIN tk : tk[i] \in LiveSt}
NumTasks(q) == Cardinality(LiveRegistered(q.tasks)) + SumOver(q.orphans, OrphanKeys)

\* the task registered for id loses its entry in _download_tasks
Unregister(q, id) ==
    IF id \in DOMAIN q.tasks /\ q.tasks[id] \in LiveSt
    THEN [q.orphans EXCEPT ![<<id, q.tasks[id]>>] = @ + 1]
    ELSE q.orphans

\* queue.py _start_download; ctorFails: the ids for which constructing the
\* Downloader raises (ensure_directory on the output directory)
start_download(q, k, ctorFails) ==
    LET id == q.db[k].id
    IN  IF id \in ctorFails
        THEN [q EXCEPT !.db = update_failed(q.db, id, CtorError)]
        ELSE [db      |-> update_item(q.db, id, "downloading"),
              active  |-> q.active \cup {id},
              tasks   |-> Put(q.tasks, id, "new"),
              orphans |-> Unregister(q, id)]

\* queue.py _process_queue, the condition of the inner while
can_start(q) ==
    /\ Cardinality(q.active) < maxConcurrent
    /\ has_queued_downloads(q.db)

RECURSIVE dispatch(_, _)
dispatch(q, ctorFails) ==
    IF can_start(q)
    THEN dispatch(start_download(q, get_next_queued_item(q.db), ctorFails), ctorFails)
    ELSE q

\* queue.py _check_completed_downloads: drop the done tasks from _download_tasks
check_completed_downloads(q) ==
    [q EXCEPT !.tasks = [i \in LiveRegistered(q.tasks) |-> q.tasks[i]]]

\* per scheduler iteration: no constructor fails, or the one of a queued item
CtorFailSets == {{}} \cup {{db[k].id} : k \in QueuedIdx(db)}

QNow == [db |-> db, active |-> active, tasks |-> tasks, orphans |-> orphans]

QueueInit ==
    /\ db = <<>>
    /\ used = 0
    /\ active = {}
    /\ tasks = EmptyFn
    /\ orphans = NoOrphans
    /\ isRunning = FALSE
    /\ maxConcurrent \in 1..MaxK
    /\ leaked = {}

\* queue.py add_download
AddDownload(limit) ==
    /\ used < limit
    /\ used < Len(NewIds)
    /\ used' = used + 1
    /\ db' = Append(db, [id |-> NewIds[used + 1], status |-> "queued",
                         error_message |-> ""])
    /\ UNCHANGED <<active, tasks, orphans, isRunning, maxConcurrent>>
    /\ UNCHANGED leaked
    /\ UNCHANGED <<segVars, dlVars, mergeVars, lookVars>>

\* a caller looks an item up
GetItem(arg) ==
    /\ lookup' \in get_item(db, arg)
    /\ UNCHANGED <<queueVars, segVars, dlVars, mergeVars>>

\* task.cancel() on the task registered for id, when it is not done:
\* a task that never ran is finished without entering _download_wrapper,
\* a running one receives CancelledError at its next step
cancel_task(tk, id) ==
    IF id \in DOMAIN tk /\ tk[id] \in LiveSt
    THEN [tk EXCEPT ![id] = IF @ = "new" THEN "done" ELSE "cancelling"]
    ELSE tk

\* queue.py cancel_download
CancelDownload(arg) ==
    /\ \E k \in MatchesIn(db, arg) :
          /\ tasks' = cancel_task(tasks, db[k].id)
          /\ db' = update_item(db, arg, "cancelled")
    /\ UNCHANGED <<used, active, orphans, isRunning, maxConcurrent>>
    /\ UNCHANGED leaked
    /\ UNCHANGED <<segVars, dlVars, mergeVars, lookVars>>

\* queue.py remove_download
RemoveDownload(arg) ==
    /\ MatchesIn(db, arg) # {}
    /\ IF arg \in active
       THEN \E k \in MatchesIn(db, arg) :
               /\ tasks' = cancel_task(tasks, db[k].id)
               /\ db' = remove_item(update_item(db, arg, "cancelled"), arg)
       ELSE /\ tasks' = tasks
            /\ db' = remove_item(db, arg)
    /\ UNCHANGED <<used, active, orphans, isRunning, maxConcurrent>>
    /\ UNCHANGED leaked
    /\ UNCHANGED <<segVars, dlVars, mergeVars, lookVars>>

\* queue.py pause_download.  The _pause_downloader task it spawns awaits the
\* value returned by the synchronous SessionManager.create_session, which
\* raises TypeError; the error is caught and Downloader.pause() is not reached
\* (and before the probe has finished pause() finds no segment task to
\* cancel), so the coordinator task keeps running.
PauseDownload(arg) ==
    /\ \E k \in MatchesIn(db, arg) : db[k].status = "downloading"
    /\ db' = update_item(db, arg, "paused")
    /\ UNCHANGED <<used, active, tasks, orphans, isRunning, maxConcurrent>>
    /\ UNCHANGED leaked
    /\ UNCHANGED <<segVars, dlVars, mergeVars, lookVars>>

\* queue.py resume_download
ResumeDownload(arg) ==
    /\ \E k \in MatchesIn(db, arg) : db[k].status = "paused"
    /\ db' = update_item(db, arg, "queued")
    /\ UNCHANGED <<used, active, tasks, orphans, isRunning, maxConcurrent>>
    /\ UNCHANGED leaked
    /\ UNCHANGED <<segVars, dlVars, mergeVars, lookVars>>

\* queue.py start_queue
StartQueue ==
    /\ ~isRunning
    /\ isRunning' = TRUE
    /\ UNCHANGED <<db, used, active, tasks, orphans, maxConcurrent>>
    /\ UNCHANGED leaked
    /\ UNCHANGED <<segVars, dlVars, mergeVars, lookVars>>

\* the finally block of _download_wrapper leaving _active_downloads alone
wrapper_finally_keepSlot(q, id) ==
    [q EXCEPT !.tasks = Remove(q.tasks, id)]

\* queue.py _download_wrapper, the finally block: the entries of the item id
\* are deleted, whichever task owns them
wrapper_finally(q, id) ==
    [q EXCEPT !.active = q.active \ {id},
              !.tasks = Remove(q.tasks, id)]

\* queue.py _download_wrapper: the status written when download() ends,
\* then the finally block; reg tells whether the ending task is the one
\* registered in _download_tasks
wrapper_end(q, id, reg, st, status, msg) ==
    LET q1 == [q EXCEPT !.db = IF status = "failed" THEN update_failed(q.db, id, msg)
                               ELSE update_item(q.db, id, status)]
        q2 == IF reg THEN q1
              ELSE [q1 EXCEPT !.orphans =
                       [Unregister(q1, id) EXCEPT ![<<id, st>>] = @ - 1]]
    IN  wrapper_finally(q2, id)

SetQ(q) ==
    /\ db' = q.db
    /\ active' = q.active
    /\ tasks' = q.tasks
    /\ orphans' = q.orphans

\* one iteration of queue.py _process_queue (there is no await that suspends
\* between its start and its sleep)
ProcessQueue(ctorFails) ==
    /\ isRunning
    /\ LET q == check_completed_downloads(dispatch(QNow, ctorFails))
       IN  /\ NumTasks(q) <= MaxTasks
           /\ SetQ(q)
    /\ UNCHANGED <<used, isRunning, maxConcurrent>>
    /\ UNCHANGED leaked
    /\ UNCHANGED <<segVars, dlVars, mergeVars, lookVars>>

IsTask(id, reg, st) ==
    IF reg THEN id \in DOMAIN tasks /\ tasks[id] = st
    ELSE orphans[<<id, st>>] > 0

\* first step of a coordinator task: _download_wrapper enters download()
TaskStart(id, reg) ==
    /\ IsTask(id, reg, "new")
    /\ IF reg
       THEN /\ tasks' = [tasks EXCEPT ![id] = "running"]
            /\ UNCHANGED orphans
       ELSE /\ orphans' = [orphans EXCEPT ![<<id, "new">>] = @ - 1,
                                          ![<<id, "running">>] = @ + 1]
            /\ UNCHANGED tasks
    /\ UNCHANGED <<db, used, active, isRunning, maxConcurrent>>
    /\ UNCHANGED leaked
    /\ UNCHANGED <<segVars, dlVars, mergeVars, lookVars>>

\* download() returns the file path
TaskComplete(id, reg) ==
    /\ IsTask(id, reg, "running")
    /\ SetQ(wrapper_end(QNow, id, reg, "running", "completed", ""))
    /\ UNCHANGED <<used, isRunning, maxConcurrent>>
    /\ UNCHANGED leaked
    /\ UNCHANGED <<segVars, dlVars, mergeVars, lookVars>>

\* download() raises an exception whose str is msg
TaskFail(id, reg, msg) ==
    /\ IsTask(id, reg, "running")
    /\ SetQ(wrapper_end(QNow, id, reg, "running", "failed", msg))
    /\ UNCHANGED <<used, isRunning, maxConcurrent>>
    /\ UNCHANGED leaked
    /\ UNCHANGED <<segVars, dlVars, mergeVars, lookVars>>

\* CancelledError reaches _download_wrapper (only a registered task can have
\* been cancelled; it may have lost its registration since).  It has passed
\* through download(), whose "except Exception" does not catch it: a staging
\* directory made by the probe is left behind.
TaskCancelled(id, reg) ==
    /\ IsTask(id, reg, "cancelling")
    /\ leaked' \in {leaked, leaked \cup {id}}
    /\ SetQ(wrapper_end(QNow, id, reg, "cancelling", "cancelled", ""))
    /\ UNCHANGED <<used, isRunning, maxConcurrent>>
    /\ UNCHANGED <<segVars, dlVars, mergeVars, lookVars>>

RECURSIVE stop_all(_, _)
stop_all(q, ids) ==
    IF ids = {} THEN q
    ELSE LET id == CHOOSE i \in ids : TRUE
         IN  IF id \in DOMAIN q.tasks /\ q.tasks[id] \in LiveSt
             THEN IF q.tasks[id] = "new"
                  THEN stop_all([q EXCEPT !.tasks[id] = "done"], ids \ {id})
                  ELSE stop_all(wrapper_end(q, id, TRUE, q.tasks[id], "cancelled", ""),
                                ids \ {id})
             ELSE stop_all(q, ids \ {id})

\* queue.py stop_queue with _cancel_active_download for every key of
\* _active_downloads: the registered task is cancelled and awaited
StopQueue ==
    /\ isRunning' = FALSE
    /\ \E L \in SUBSET {id \in active : id \in DOMAIN tasks
                                        /\ tasks[id] \in {"running", "cancelling"}} :
          leaked' = leaked \cup L
    /\ SetQ(stop_all(QNow, active))
    /\ UNCHANGED <<used, maxConcurrent>>
    /\ UNCHANGED <<segVars, dlVars, mergeVars, lookVars>>

\* the process ends and a new one constructs DownloadQueue (__init__); the
\* queue_items table is on disk
Restart ==
    /\ active' = {}
    /\ tasks' = EmptyFn
    /\ orphans' = NoOrphans
    /\ isRunning' = FALSE
    /\ UNCHANGED <<db, used, maxConcurrent>>
    /\ UNCHANGED leaked
    /\ UNCHANGED <<segVars, dlVars, mergeVars, lookVars>>

(***************************************************************************)
(* One download: coordinator, segment streamers, pause and resume          *)
(***************************************************************************)
\* The server holds dTotal bytes; the byte at offset k is written k.  A file
\* on disk is the sequence of the extents <<lo, hi>> of source offsets it
\* holds, in file order, adjacent extents joined.
BigSize == 200     \* one larger file, for the 99% completion threshold
SmallChunks == {1, 2}
BigChunk == 99
\* sizes of the chunks iter_chunked hands over
ChunkSizes == IF dTotal = BigSize THEN {BigChunk} ELSE SmallChunks

NoFile == [exists |-> FALSE, data |-> <<>>]
EmptyFile == [exists |-> TRUE, data |-> <<>>]

AppendExt(d, lo, hi) ==
    IF hi < lo THEN d
    ELSE IF d # <<>> /\ d[Len(d)][2] + 1 = lo
    THEN [d EXCEPT ![Len(d)] = <<@[1], hi>>]
    ELSE Append(d, <<lo, hi>>)

RECURSIVE Concat(_, _)
Concat(d, e) ==
    IF e = <<>> THEN d
    ELSE Concat(AppendExt(d, Head(e)[1], Head(e)[2]), Tail(e))

RECURSIVE DataSize(_)
DataSize(d) == IF d = <<>> THEN 0 ELSE (Head(d)[2] - Head(d)[1] + 1) + DataSize(Tail(d))
FileSize(f) == DataSize(f.data)

\* a write through an open handle: nothing reaches a file that was unlinked
WriteTo(f, lo, hi) ==
    IF f.exists THEN [f EXCEPT !.data = AppendExt(@, lo, hi)] ELSE f

\* pc of a segment task: "top" of the loop of download_segment, "body" while
\* _ultra_fast_download streams; ended: "done" (returned True), "failed"
\* (raised ConnectionException), "cancelled" (left by CancelledError).
\* rej: the 401 or 416 answer the task has received ("" for none)
NoStream == [pc |-> "none", retry |-> 0, bsu |-> 0, next |-> 0, last |-> -1, rej |-> ""]
NewStream == [NoStream EXCEPT !.pc = "top"]
Terminal == {"none", "done", "failed", "cancelled"}

NoSession == [exists |-> FALSE, status |-> "none", segments |-> <<>>, downloaded |-> 0,
              file_path |-> "", temp_dir |-> ""]

Segs == 1..Len(dSegs)

\* segment.end - segment.start + 1
expected_size(sg) == sg.end - sg.start + 1

\* "x >= expected_size * 0.99" (connection.py:106, downloader.py:798)
reached_99(x, expected) == x * 100 >= expected * 99

\* network.py download_range + the server: the offsets of the body sent for
\* "Range: bytes=cs-end".  A server honouring ranges answers 206 with the
\* range; "bytes=cs--1" (end = -1) is not a valid range and is ignored, like
\* any Range by a server without range support: 200 with the whole file.
Body(cs, end) ==
    IF dRanges /\ end # -1
    THEN <<cs, Min(end, dTotal - 1)>>
    ELSE <<0, dTotal - 1>>

DlInit ==
    /\ dTotal \in (1..MaxDlSize) \cup {BigSize}
    /\ dRanges \in BOOLEAN
    /\ dN \in 1..MaxDlConn
    /\ dPc = "new"
    /\ dSegs = <<>>
    /\ dStats = 0
    /\ dStr = <<>>
    /\ dParts = <<>>
    /\ dStaging = FALSE
    /\ dDest = NoFile
    /\ dSession = NoSession
    /\ dFaults = 0
    /\ dPauses = 0
    /\ dItemPaused = "no"
    /\ dFetched = 0
    /\ dAtPause = 0

DlIdle ==
    /\ dTotal = 1 /\ dRanges = FALSE /\ dN = 1 /\ dPc = "new"
    /\ dSegs = <<>> /\ dStats = 0 /\ dStr = <<>> /\ dParts = <<>>
    /\ dStaging = FALSE /\ dDest = NoFile /\ dSession = NoSession
    /\ dFaults = 0 /\ dPauses = 0
    /\ dItemPaused = "no" /\ dFetched = 0 /\ dAtPause = 0

\* downloader.py download() up to the gather: probe (get_download_info
\* creates the staging directory), _create_segments, create_session, one
\* task per segment
DownloadStart ==
    /\ dPc = "new"
    /\ LET sgs == create_segments(dTotal, dRanges, dN)
       IN  /\ dSegs' = sgs
           /\ dStr' = [i \in 1..Len(sgs) |-> NewStream]
           /\ dParts' = [i \in 1..Len(sgs) |-> NoFile]
           /\ dSession' = [exists |-> TRUE, status |-> "active",
                           segments |-> sgs, downloaded |-> 0,
                           file_path |-> "output_dir/filename", temp_dir |-> "temp_dir"]
    /\ dStaging' = TRUE
    /\ dStats' = 0
    /\ dPc' = "downloading"
    /\ UNCHANGED <<dTotal, dRanges, dN, dDest, dFaults, dPauses>>
    /\ UNCHANGED <<dItemPaused, dFetched, dAtPause>>
    /\ UNCHANGED <<segVars, queueVars, mergeVars, lookVars>>

\* what makes get_download_info raise: the probe (NetworkException), the
\* free-space check of the staging directory or of the output directory
\* (InsufficientSpaceException)
ProbeFailures == {"network", "staging_space", "dest_space"}

\* the staging directory after a get_download_info that raised, without the
\* call of _cleanup_temp_directory before the raise
probe_failed_noCleanup(cause) ==
    IF cause = "network" THEN dStaging ELSE TRUE

\* the staging directory after a get_download_info that raised: the probe
\* raises before _create_temp_directory; a failed free-space check comes
\* after it and calls _cleanup_temp_directory (rmtree) before raising
probe_failed(cause) ==
    IF cause = "network" THEN dStaging ELSE FALSE

\* downloader.py download() when get_download_info raises: the call is
\* outside the try of download(), so the exception leaves download() before
\* _create_segments and create_session
DownloadRejected(cause) ==
    /\ dPc = "new"
    /\ dPc' = "rejected"
    /\ dStaging' = probe_failed(cause)
    /\ UNCHANGED <<dTotal, dRanges, dN, dSegs, dStats, dStr, dParts, dDest, dSession>>
    /\ UNCHANGED <<dFaults, dPauses, dItemPaused, dFetched, dAtPause>>
    /\ UNCHANGED <<segVars, queueVars, mergeVars, lookVars>>

\* connection.py download_segment, one pass of the while loop up to the
\* response: the quick completion check, then download_range; on a response
\* _ultra_fast_download opens the part-file ("ab" if segment.downloaded > 0
\* else "wb")
StreamerRequest(i, fault) ==
    /\ i \in Segs
    /\ dStr[i].pc = "top"
    /\ ~dSegs[i].is_paused
    /\ LET sg == dSegs[i]
           current_start == sg.start + sg.downloaded
       IN  IF sg.end # -1 /\ current_start > sg.end
           THEN /\ ~fault
                /\ dSegs' = [dSegs EXCEPT ![i].completed = TRUE]
                /\ dStr' = [dStr EXCEPT ![i].pc = "done"]
                /\ UNCHANGED <<dParts, dFaults>>
           ELSE IF fault
           THEN \* download_range raises: the except branch of the loop
                /\ dFaults' = Min(dFaults + 1, MaxFaults)
                /\ dSegs' = [dSegs EXCEPT ![i].retry_count = dStr[i].retry + 1]
                /\ dStr' = [dStr EXCEPT ![i].retry = @ + 1,
                                        ![i].pc = IF dStr[i].retry + 1 > MaxRetries
                                                  THEN "failed" ELSE "top"]
                /\ UNCHANGED dParts
           ELSE \* a response; without a staging directory the open fails,
                \* _ultra_fast_download returns False and the loop goes on
                /\ dStaging
                /\ dStr' = [dStr EXCEPT ![i].pc = "body", ![i].bsu = 0,
                                        ![i].next = Body(current_start, sg.end)[1],
                                        ![i].last = Body(current_start, sg.end)[2]]
                /\ dParts' = [dParts EXCEPT ![i] =
                                 IF sg.downloaded > 0 /\ dParts[i].exists
                                 THEN dParts[i] ELSE EmptyFile]
                /\ UNCHANGED <<dSegs, dFaults>>
    /\ UNCHANGED <<dTotal, dRanges, dN, dPc, dStats, dStaging, dDest, dSession, dPauses>>
    /\ UNCHANGED <<dItemPaused, dFetched, dAtPause>>
    /\ UNCHANGED <<segVars, queueVars, mergeVars, lookVars>>

\* network.py download_range gets 401 or 416 and raises
\* AuthenticationException or NetworkException; download_segment catches it
\* with "except Exception" like any other error: the retry is counted and,
\* while the budget lasts, the loop goes round again
StreamerRejected(i, code) ==
    /\ i \in Segs
    /\ code \in {"401", "416"}
    /\ dStr[i].pc = "top"
    /\ ~dSegs[i].is_paused
    /\ ~(dSegs[i].end # -1 /\ dSegs[i].start + dSegs[i].downloaded > dSegs[i].end)
    /\ dFaults' = Min(dFaults + 1, MaxFaults)
    /\ dSegs' = [dSegs EXCEPT ![i].retry_count = dStr[i].retry + 1]
    /\ dStr' = [dStr EXCEPT ![i].retry = @ + 1,
                            ![i].rej = code,
                            ![i].pc = IF dStr[i].retry + 1 > MaxRetries
                                      THEN "failed" ELSE "top"]
    /\ UNCHANGED <<dTotal, dRanges, dN, dPc, dStats, dParts, dStaging, dDest, dSession,
                   dPauses, dItemPaused, dFetched, dAtPause>>
    /\ UNCHANGED <<segVars, queueVars, mergeVars, lookVars>>

\* connection.py _ultra_fast_download, one chunk: the pause check, the write,
\* the counters, and the progress callback when 50 MB or 5 s have passed
\* (flush); downloader.py _segment_progress_callback adds the reported bytes
\* to stats.downloaded and, when 5 s have passed, writes the stats to the
\* session (snap)
StreamerChunk(i, c, flush, snap) ==
    /\ i \in Segs
    /\ dStr[i].pc = "body"
    /\ dStr[i].next <= dStr[i].last
    /\ c \in ChunkSizes
    /\ LET n == Min(c, dStr[i].last - dStr[i].next + 1)
           bsu == dStr[i].bsu + n
       IN  IF dSegs[i].is_paused
           THEN /\ dStr' = [dStr EXCEPT ![i].pc = "top"]
                /\ ~flush /\ ~snap
                /\ UNCHANGED <<dSegs, dParts, dStats, dSession, dFetched>>
           ELSE /\ dParts' = [dParts EXCEPT ![i] =
                                 WriteTo(@, dStr[i].next, dStr[i].next + n - 1)]
                /\ dSegs' = [dSegs EXCEPT ![i].downloaded = @ + n]
                /\ dFetched' = IF dPc = "resuming" THEN dFetched + n ELSE dFetched
                /\ dStr' = [dStr EXCEPT ![i].next = @ + n,
                                        ![i].bsu = IF flush THEN 0 ELSE bsu]
                /\ dStats' = IF flush THEN dStats + bsu ELSE dStats
                /\ (snap => flush)
                /\ dSession' = IF snap /\ dSession.exists
                               THEN [dSession EXCEPT !.downloaded = dStats + bsu]
                               ELSE dSession
    /\ UNCHANGED <<dTotal, dRanges, dN, dPc, dStaging, dDest, dFaults, dPauses>>
    /\ UNCHANGED <<dItemPaused, dAtPause>>
    /\ UNCHANGED <<segVars, queueVars, mergeVars, lookVars>>

\* connection.py download_segment:102-111, after a successful pass
segment_complete(sg) ==
    IF sg.end # -1 THEN reached_99(sg.downloaded, expected_size(sg)) ELSE TRUE

\* the body ends: the final progress update for the remaining bytes, then
\* the completion test of download_segment; a segment that is not complete
\* goes round the loop again without counting a retry
StreamerEnd(i) ==
    /\ i \in Segs
    /\ dStr[i].pc = "body"
    /\ dStr[i].next > dStr[i].last
    /\ dStats' = dStats + dStr[i].bsu
    /\ IF segment_complete(dSegs[i])
       THEN /\ dSegs' = [dSegs EXCEPT ![i].completed = TRUE]
            /\ dStr' = [dStr EXCEPT ![i].pc = "done", ![i].bsu = 0]
       ELSE /\ dStr' = [dStr EXCEPT ![i].pc = "top", ![i].bsu = 0]
            /\ UNCHANGED dSegs
    /\ UNCHANGED <<dTotal, dRanges, dN, dPc, dParts, dStaging, dDest, dSession,
                   dFaults, dPauses>>
    /\ UNCHANGED <<dItemPaused, dFetched, dAtPause>>
    /\ UNCHANGED <<segVars, queueVars, mergeVars, lookVars>>

\* the connection drops while the body is read: _ultra_fast_download catches
\* the exception and returns False (the bytes not yet reported are not
\* reported), download_segment goes round its loop again
StreamerBodyError(i) ==
    /\ i \in Segs
    /\ dStr[i].pc = "body"
    /\ dStr[i].next <= dStr[i].last
    /\ dFaults' = Min(dFaults + 1, MaxFaults)
    /\ dStr' = [dStr EXCEPT ![i].pc = "top", ![i].bsu = 0]
    /\ UNCHANGED <<dTotal, dRanges, dN, dPc, dSegs, dStats, dParts, dStaging, dDest,
                   dSession, dPauses>>
    /\ UNCHANGED <<dItemPaused, dFetched, dAtPause>>
    /\ UNCHANGED <<segVars, queueVars, mergeVars, lookVars>>


RECURSIVE ConcatParts(_, _)
ConcatParts(ps, k) ==
    IF k = 0 THEN <<>> ELSE Concat(ConcatParts(ps, k - 1), ps[k].data)

\* downloader.py _finalize_download: merge_parts for several segments (which
\* raises when a part-file is missing), a rename for a single one; then
\* atomic_move to the destination and removal of the staging directory.
\* ok is FALSE when it raises.
finalize_ok == \A i \in Segs : dParts[i].exists
finalize_dest == [exists |-> TRUE, data |-> ConcatParts(dParts, Len(dParts))]

\* _finalize_download and what its caller does with the outcome.
\* _cleanup_temp_directory removes self._temp_dir, which only
\* get_download_info sets: a downloader made by create_from_session
\* (resumed) has none and leaves the staging directory.  A failed merge or
\* rename raises before the finally of _finalize_download is entered;
\* download() then removes part-files and staging directory, resume() only
\* marks the session failed.
Finalize(resumed) ==
    IF finalize_ok
    THEN /\ dDest' = finalize_dest
         /\ dParts' = [i \in Segs |-> NoFile]
         /\ dStaging' = resumed
         /\ dSession' = [dSession EXCEPT !.status = "completed"]
         /\ dPc' = "completed"
    ELSE /\ dSession' = [dSession EXCEPT !.status = "failed"]
         /\ dPc' = "failed"
         /\ UNCHANGED dDest
         /\ IF resumed
            THEN UNCHANGED <<dParts, dStaging>>
            ELSE dParts' = [i \in Segs |-> NoFile] /\ dStaging' = FALSE

\* downloader.py download(), after the gather: all segment tasks returned
DownloadFinish ==
    /\ dPc = "downloading"
    /\ \A i \in Segs : dStr[i].pc = "done"
    /\ Finalize(FALSE)
    /\ UNCHANGED <<dTotal, dRanges, dN, dSegs, dStats, dStr, dFaults, dPauses>>
    /\ UNCHANGED <<dItemPaused, dFetched, dAtPause>>
    /\ UNCHANGED <<segVars, queueVars, mergeVars, lookVars>>

\* downloader.py download(), the except branch: a segment task raised, the
\* gather raises at once; fail_session, _cleanup_segments,
\* _cleanup_temp_directory.  The other segment tasks are not cancelled.
DownloadFail ==
    /\ dPc = "downloading"
    /\ \E i \in Segs : dStr[i].pc = "failed"
    /\ dSession' = [dSession EXCEPT !.status = "failed"]
    /\ dParts' = [i \in Segs |-> NoFile]
    /\ dStaging' = FALSE
    /\ dPc' = "failed"
    /\ UNCHANGED <<dTotal, dRanges, dN, dSegs, dStats, dStr, dDest, dFaults, dPauses>>
    /\ UNCHANGED <<dItemPaused, dFetched, dAtPause>>
    /\ UNCHANGED <<segVars, queueVars, mergeVars, lookVars>>

\* a snapshot that stores of each segment only what is still to fetch: the
\* range from start + downloaded on
save_session_state_rest(sess, sgs, stats) ==
    [sess EXCEPT !.status = "paused", !.downloaded = stats,
                 !.segments = [i \in 1..Len(sgs) |->
                                  [sgs[i] EXCEPT !.start = @ + sgs[i].downloaded]]]

\* downloader.py _save_session_state for a session that exists:
\* update_session(stats, segments, status="paused") replaces these three
\* columns and no other
save_session_state(sess, sgs, stats) ==
    [sess EXCEPT !.status = "paused", !.segments = sgs, !.downloaded = stats]

\* downloader.py pause(): _save_session_state writes stats, segments and
\* status 'paused' to the session, every segment gets is_paused, every
\* segment task that is not done is cancelled.  A cancelled task sets
\* is_paused and ends; a chunk whose write was handed to the executor when
\* the task was cancelled may still reach the file without being counted
\* (inflight[i] bytes).  download() is left by the CancelledError of the
\* gather, which "except Exception" does not catch: nothing is cleaned up.
\* pause() is called on the downloader of a running download()
\* (commands.py:333,396,424, queue.py:280), with a segment task to cancel.
Pause(inflight) ==
    /\ dPc = "downloading"
    /\ \E i \in Segs : dStr[i].pc \in {"top", "body"}
    /\ \A i \in Segs : dStr[i].pc # "failed"
    /\ dPauses' = dPauses + 1
    /\ dSession' = save_session_state(dSession, dSegs, dStats)
    /\ dSegs' = [i \in Segs |-> [dSegs[i] EXCEPT !.is_paused = TRUE]]
    /\ \A i \in Segs :
          IF dStr[i].pc = "body" /\ dStr[i].next <= dStr[i].last
          THEN inflight[i] \in {0} \cup {Min(c, dStr[i].last - dStr[i].next + 1) : c \in ChunkSizes}
          ELSE inflight[i] = 0
    /\ dParts' = [i \in Segs |->
                    WriteTo(dParts[i], dStr[i].next, dStr[i].next + inflight[i] - 1)]
    /\ dStr' = [i \in Segs |-> IF dStr[i].pc \in {"top", "body"}
                               THEN [dStr[i] EXCEPT !.pc = "cancelled", !.bsu = 0]
                               ELSE dStr[i]]
    /\ dPc' = "paused"
    /\ UNCHANGED <<dTotal, dRanges, dN, dStats, dStaging, dDest, dFaults>>
    /\ dAtPause' = SumSeq([i \in Segs |-> FileSize(dParts'[i])])
    /\ UNCHANGED <<dItemPaused, dFetched>>
    /\ UNCHANGED <<segVars, queueVars, mergeVars, lookVars>>

\* queue.py pause_download on the item of this download while its
\* coordinator is in _active_downloads: the item is set to 'paused' and a
\* _pause_downloader task is created
QueuePause ==
    /\ dItemPaused = "no"
    /\ dPc \in {"new", "downloading"}
    /\ dItemPaused' = "requested"
    /\ UNCHANGED <<dTotal, dRanges, dN, dPc, dSegs, dStats, dStr, dParts, dStaging,
                   dDest, dSession, dFaults, dPauses, dFetched, dAtPause>>
    /\ UNCHANGED <<segVars, queueVars, mergeVars, lookVars>>

\* queue.py _pause_downloader.  Once the probe has set download_info, it
\* calls the synchronous SessionManager.create_session (which stores a
\* record of its own, 'session_<item>_<time>') and awaits the SessionData it
\* returns: TypeError, caught and printed, Downloader.pause() is not reached.
\* Before the probe, pause() runs but finds neither download_info nor
\* segments nor segment tasks.  Either way the downloader is left as it was.
PauseDownloaderTask ==
    /\ dItemPaused = "requested"
    /\ dItemPaused' = "handled"
    /\ UNCHANGED <<dTotal, dRanges, dN, dPc, dSegs, dStats, dStr, dParts, dStaging,
                   dDest, dSession, dFaults, dPauses, dFetched, dAtPause>>
    /\ UNCHANGED <<segVars, queueVars, mergeVars, lookVars>>

\* downloader.py cancel(): pause() as above (the session is saved with
\* status 'paused'), then _cleanup_segments and _cleanup_temp_directory,
\* neither of which awaits: part-files and staging directory are removed
\* before a cancelled segment task runs again.  The session record is left
\* as pause() wrote it.
Cancel ==
    /\ dPc = "downloading"
    /\ \E i \in Segs : dStr[i].pc \in {"top", "body"}
    /\ \A i \in Segs : dStr[i].pc # "failed"
    /\ dPauses' = dPauses + 1
    /\ dSession' = save_session_state(dSession, dSegs, dStats)
    /\ dSegs' = [i \in Segs |-> [dSegs[i] EXCEPT !.is_paused = TRUE]]
    /\ dParts' = [i \in Segs |-> NoFile]
    /\ dStaging' = FALSE
    /\ dStr' = [i \in Segs |-> IF dStr[i].pc \in {"top", "body"}
                               THEN [dStr[i] EXCEPT !.pc = "cancelled", !.bsu = 0]
                               ELSE dStr[i]]
    /\ dPc' = "cancelled"
    /\ UNCHANGED <<dTotal, dRanges, dN, dStats, dDest, dFaults>>
    /\ UNCHANGED <<dItemPaused, dFetched, dAtPause>>
    /\ UNCHANGED <<segVars, queueVars, mergeVars, lookVars>>

\* the progress taken from the session record, the part-file not measured
remeasure_fromSession(sg, f) ==
    IF f.exists
    THEN [sg EXCEPT !.completed = reached_99(sg.downloaded,
                                     IF sg.end # -1 THEN expected_size(sg) ELSE FileSize(f))]
    ELSE [sg EXCEPT !.downloaded = 0, !.completed = FALSE]

\* downloader.py resume():789-810, one segment re-measured from its part-file
remeasure(sg, f) ==
    IF f.exists
    THEN [sg EXCEPT !.downloaded = FileSize(f),
                    !.completed = reached_99(FileSize(f),
                                     IF sg.end # -1 THEN expected_size(sg) ELSE FileSize(f))]
    ELSE [sg EXCEPT !.downloaded = 0, !.completed = FALSE]

\* downloader.py create_from_session followed by resume(), up to the gather.
\* create_from_session accepts a session of any status whose stats still
\* load (a failed one does not: fail_session adds 'error_message' to them):
\* one left by pause(), by cancel(), or a completed one.
Resume ==
    /\ dPc \in {"paused", "cancelled", "completed"}
    /\ dSession.exists
    /\ LET sgs0 == dSession.segments
           sgs  == [i \in 1..Len(sgs0) |-> remeasure(sgs0[i], dParts[i])]
           started == [i \in 1..Len(sgs) |->
                          [sgs[i] EXCEPT !.is_paused =
                              IF sgs[i].completed THEN @ ELSE FALSE]]
       IN  IF ~dStaging \/ \A i \in 1..Len(sgs) : ~dParts[i].exists
           THEN \* staging directory or all part-files missing: return None
                /\ dSession' = [dSession EXCEPT !.status = "failed"]
                /\ dPc' = "broken"
                /\ dSegs' = IF dStaging THEN sgs ELSE sgs0
                /\ dStats' = dSession.downloaded
                /\ dStr' = [i \in 1..Len(sgs) |-> NoStream]
                /\ UNCHANGED <<dParts, dStaging, dDest>>
           ELSE /\ dSegs' = started
                /\ dStats' = SumSeq([i \in 1..Len(sgs) |-> sgs[i].downloaded])
                /\ IF \A i \in 1..Len(sgs) : sgs[i].completed
                   THEN /\ dStr' = [i \in 1..Len(sgs) |-> NoStream]
                        /\ IF dDest.exists
                           THEN /\ dSession' = [dSession EXCEPT !.status = "completed"]
                                /\ dPc' = "completed"
                                /\ UNCHANGED <<dParts, dStaging, dDest>>
                           ELSE Finalize(TRUE)
                   ELSE /\ dStr' = [i \in 1..Len(sgs) |->
                                       IF sgs[i].completed THEN NoStream ELSE NewStream]
                        /\ dSession' = [dSession EXCEPT !.status = "active"]
                        /\ dPc' = "resuming"
                        /\ UNCHANGED <<dParts, dStaging, dDest>>
    /\ UNCHANGED <<dTotal, dRanges, dN, dFaults, dPauses>>
    /\ dFetched' = 0
    /\ UNCHANGED <<dItemPaused, dAtPause>>
    /\ UNCHANGED <<segVars, queueVars, mergeVars, lookVars>>

\* downloader.py resume(), after gather(*tasks, return_exceptions=True):
\* whether the segment tasks returned or raised, _finalize_download runs
ResumeFinish ==
    /\ dPc = "resuming"
    /\ \A i \in Segs : dStr[i].pc \in Terminal
    /\ Finalize(TRUE)
    /\ UNCHANGED <<dTotal, dRanges, dN, dSegs, dStats, dStr, dFaults, dPauses>>
    /\ UNCHANGED <<dItemPaused, dFetched, dAtPause>>
    /\ UNCHANGED <<segVars, queueVars, mergeVars, lookVars>>

(***************************************************************************)
(* FileMerger.merge_parts                                                  *)
(***************************************************************************)
STREAMING_THRESHOLD == 500 * 1024 * 1024
ASYNC_THRESHOLD == 50 * 1024 * 1024

\* a part-file "<name>.part<n>": its suffix number and the file; the lengths
\* are the small ones and the two thresholds of the merge strategies
PartLens == 0..MaxPartLen \cup {ASYNC_THRESHOLD, STREAMING_THRESHOLD}

PartFiles ==
    {NoFile} \cup {[exists |-> TRUE,
                    data |-> IF len = 0 THEN <<>> ELSE <<<<0, len - 1>>>>] :
                   len \in PartLens}

Perms(n) == {p \in [1..n -> 1..n] : \A i, j \in 1..n : p[i] = p[j] => i = j}

\* str(i) for a segment index, the suffix of "<filename>.part<i>": its
\* decimal digits
Digits(i) == IF i < 10 THEN <<i>> ELSE <<i \div 10, i % 10>>

\* int(suffix)
RECURSIVE ParseInt(_)
ParseInt(ds) ==
    IF ds = <<>> THEN 0 ELSE 10 * ParseInt(SubSeq(ds, 1, Len(ds) - 1)) + ds[Len(ds)]

\* the lists merge_parts is called with: the suffixes 0..n-1 in any order
PartLists ==
    UNION {{[k \in 1..n |-> [n |-> Digits(p[k] - 1), f |-> fs[k]]] :
               p \in Perms(n), fs \in [1..n -> PartFiles]} : n \in 0..MaxParts}

\* s < t as strings
RECURSIVE StrLess(_, _)
StrLess(s1, s2) ==
    IF s2 = <<>> THEN FALSE
    ELSE IF s1 = <<>> THEN TRUE
    ELSE IF Head(s1) # Head(s2) THEN Head(s1) < Head(s2)
    ELSE StrLess(Tail(s1), Tail(s2))

\* the part-files sorted by name, the suffix compared as a string
sorted_parts_byName(ps) ==
    LET rank(j) == Cardinality({i \in 1..Len(ps) :
                       StrLess(ps[i].n, ps[j].n) \/ (ps[i].n = ps[j].n /\ i <= j)})
    IN  [k \in 1..Len(ps) |-> ps[CHOOSE j \in 1..Len(ps) : rank(j) = k]]

\* sorted(part_files, key=lambda x: int(x.split(".part")[-1])): a stable sort
\* on the number the suffix denotes
sorted_parts(ps) ==
    LET key(j) == ParseInt(ps[j].n)
        rank(j) == Cardinality({i \in 1..Len(ps) :
                       key(i) < key(j) \/ (key(i) = key(j) /\ i <= j)})
    IN  [k \in 1..Len(ps) |-> ps[CHOOSE j \in 1..Len(ps) : rank(j) = k]]

\* merger.py _sync_merge_impl: the parts copied one after the other
RECURSIVE sync_merge_impl(_, _)
sync_merge_impl(ps, k) ==
    IF k = 0 THEN <<>> ELSE Concat(sync_merge_impl(ps, k - 1), ps[k].f.data)

\* merger.py _verify_merge: the size of the merged file against the sum of
\* the sizes of the parts
verify_merge(ps, merged) ==
    DataSize(merged) = SumSeq([k \in 1..Len(ps) |-> FileSize(ps[k].f)])

Outcome(res, out, ps) == [res |-> res, out |-> out, parts |-> ps]

\* _merge_sync whose except branch logs the error and returns
merge_sync_swallow(ps, ioError) ==
    LET sp == sorted_parts(ps)
        temp == sync_merge_impl(sp, Len(sp))
    IN  IF ioError \/ ~verify_merge(sp, temp)
        THEN Outcome("returned", NoFile, ps)
        ELSE Outcome("returned", [exists |-> TRUE, data |-> temp],
                     [k \in 1..Len(ps) |-> [ps[k] EXCEPT !.f = NoFile]])

\* merger.py _merge_sync: copy to "<output>.tmp", verify, rename to the
\* output, remove the parts; on any error the temp file is removed and
\* FileException raised.  ioError: writing the temp file fails.
merge_sync(ps, ioError) ==
    LET sp == sorted_parts(ps)
        temp == sync_merge_impl(sp, Len(sp))
    IN  IF ioError \/ ~verify_merge(sp, temp)
        THEN Outcome("raised", NoFile, ps)
        ELSE Outcome("returned", [exists |-> TRUE, data |-> temp],
                     [k \in 1..Len(ps) |-> [ps[k] EXCEPT !.f = NoFile]])

\* merger.py _merge_async: the same steps with asynchronous file I/O; the
\* move to the output falls back to copy and delete, which raises when it fails
merge_async(ps, ioError) ==
    LET sp == sorted_parts(ps)
        temp == sync_merge_impl(sp, Len(sp))
    IN  IF ioError \/ ~verify_merge(sp, temp)
        THEN Outcome("raised", NoFile, ps)
        ELSE Outcome("returned", [exists |-> TRUE, data |-> temp],
                     [k \in 1..Len(ps) |-> [ps[k] EXCEPT !.f = NoFile]])

\* merger.py _merge_streaming: the same steps with a 32 MB buffer
merge_streaming(ps, ioError) ==
    LET sp == sorted_parts(ps)
        temp == sync_merge_impl(sp, Len(sp))
    IN  IF ioError \/ ~verify_merge(sp, temp)
        THEN Outcome("raised", NoFile, ps)
        ELSE Outcome("returned", [exists |-> TRUE, data |-> temp],
                     [k \in 1..Len(ps) |-> [ps[k] EXCEPT !.f = NoFile]])

\* merger.py merge_parts: the list is validated, then merged by the strategy
\* chosen from the total size
merge_parts(ps, ioError) ==
    IF ps = <<>> \/ \E k \in 1..Len(ps) : ~ps[k].f.exists
    THEN Outcome("raised", NoFile, ps)
    ELSE LET total_size == SumSeq([k \in 1..Len(ps) |-> FileSize(ps[k].f)])
         IN  IF total_size >= STREAMING_THRESHOLD THEN merge_streaming(ps, ioError)
             ELSE IF total_size >= ASYNC_THRESHOLD THEN merge_async(ps, ioError)
             ELSE merge_sync(ps, ioError)

MergeInit ==
    /\ mParts \in PartLists
    /\ mOut = NoFile
    /\ mRes = "none"
    /\ mTotal = -1
    /\ mPc = "idle"
    /\ mTemp = NoFile
    /\ mIn = mParts

MergeParts(ioError) ==
    /\ mRes = "none"
    /\ LET o == merge_parts(mParts, ioError)
       IN  /\ mRes' = o.res
           /\ mOut' = o.out
           /\ mParts' = o.parts
    /\ mTotal' = IF \A k \in 1..Len(mParts) : mParts[k].f.exists
                 THEN SumSeq([k \in 1..Len(mParts) |-> FileSize(mParts[k].f)])
                 ELSE mTotal
    /\ mPc' = "done"
    /\ UNCHANGED <<mTemp, mIn>>
    /\ UNCHANGED <<segVars, queueVars, dlVars, lookVars>>

\* the part-files of a download of n segments, part i holding the one
\* source byte i, handed over in the order ord
OrderedParts(n, ord) ==
    [k \in 1..n |-> [n |-> Digits(ord[k] - 1),
                     f |-> [exists |-> TRUE, data |-> <<<<ord[k] - 1, ord[k] - 1>>>>]]]

\* orders of 1..n: every one for a short list; for a longer one the
\* rotations of the ascending and of the descending order, and the order of
\* the names
Rotation(n, r, down) ==
    [k \in 1..n |-> LET x == ((k - 1 + r) % n) + 1 IN IF down THEN n + 1 - x ELSE x]
NameOrder(n) ==
    LET less(a, b) == StrLess(Digits(a - 1), Digits(b - 1))
    IN  [k \in 1..n |-> CHOOSE a \in 1..n : Cardinality({b \in 1..n : less(b, a)}) = k - 1]
Orders(n) ==
    IF n <= MaxParts THEN Perms(n)
    ELSE {Rotation(n, r, down) : r \in 0..(n - 1), down \in BOOLEAN} \cup {NameOrder(n)}

MergeOrderInit ==
    /\ \E n \in 1..MaxOrderParts : \E ord \in Orders(n) : mParts = OrderedParts(n, ord)
    /\ mOut = NoFile
    /\ mRes = "none"
    /\ mTotal = -1
    /\ mPc = "idle"
    /\ mTemp = NoFile
    /\ mIn = mParts

\* ---- the same merge, step by step.  Between the steps the coroutine awaits
\* (run_in_executor, aiofiles), in _merge_sync as in _merge_async and
\* _merge_streaming, which take the same steps in the same order.

\* merge_parts: the list is validated and a strategy entered
MergeBegin ==
    /\ mPc = "idle" /\ mRes = "none"
    /\ IF mParts = <<>> \/ \E k \in 1..Len(mParts) : ~mParts[k].f.exists
       THEN mRes' = "raised" /\ mPc' = "done" /\ UNCHANGED mTotal
       ELSE /\ mPc' = "write"
            /\ mTotal' = SumSeq([k \in 1..Len(mParts) |-> FileSize(mParts[k].f)])
            /\ UNCHANGED mRes
    /\ UNCHANGED <<mParts, mOut, mTemp, mIn>>
    /\ UNCHANGED <<segVars, queueVars, dlVars, lookVars>>

\* the temp file written and the part-files removed at the same time
MergeWrite_moveParts(ioError, upto) ==
    /\ mPc = "write"
    /\ upto \in 0..Len(mParts)
    /\ LET sp == sorted_parts(mParts)
       IN  mTemp' = [exists |-> TRUE,
                     data |-> sync_merge_impl(sp, IF ioError THEN upto ELSE Len(sp))]
    /\ mParts' = [k \in 1..Len(mParts) |-> [mParts[k] EXCEPT !.f = NoFile]]
    /\ ~ioError => upto = Len(mParts)
    /\ mPc' = IF ioError THEN "error" ELSE "verify"
    /\ UNCHANGED <<mOut, mRes, mTotal, mIn>>
    /\ UNCHANGED <<segVars, queueVars, dlVars, lookVars>>

\* _sync_merge_impl (or the copy loop of the other strategies): the parts
\* are copied in sorted order into the temp file; ioError: the copy raises
\* after upto parts
MergeWrite(ioError, upto) ==
    /\ mPc = "write"
    /\ upto \in 0..Len(mParts)
    /\ LET sp == sorted_parts(mParts)
       IN  mTemp' = [exists |-> TRUE,
                     data |-> sync_merge_impl(sp, IF ioError THEN upto ELSE Len(sp))]
    /\ ~ioError => upto = Len(mParts)
    /\ mPc' = IF ioError THEN "error" ELSE "verify"
    /\ UNCHANGED <<mParts, mOut, mRes, mTotal, mIn>>
    /\ UNCHANGED <<segVars, queueVars, dlVars, lookVars>>

\* _verify_merge on the temp file
MergeVerify ==
    /\ mPc = "verify"
    /\ mPc' = IF verify_merge(sorted_parts(mParts), mTemp.data) THEN "rename" ELSE "error"
    /\ UNCHANGED <<mParts, mOut, mRes, mTotal, mTemp, mIn>>
    /\ UNCHANGED <<segVars, queueVars, dlVars, lookVars>>

\* os.rename(temp_file, output_file) (_atomic_move in _merge_async, whose
\* fallback removes a destination it could not complete); ioError: it raises
MergeRename(ioError) ==
    /\ mPc = "rename"
    /\ IF ioError
       THEN mPc' = "error" /\ UNCHANGED <<mOut, mTemp>>
       ELSE mOut' = mTemp /\ mTemp' = NoFile /\ mPc' = "cleanup"
    /\ UNCHANGED <<mParts, mRes, mTotal, mIn>>
    /\ UNCHANGED <<segVars, queueVars, dlVars, lookVars>>

\* the part-files are removed and the merge returns
MergeCleanup ==
    /\ mPc = "cleanup"
    /\ mParts' = [k \in 1..Len(mParts) |-> [mParts[k] EXCEPT !.f = NoFile]]
    /\ mRes' = "returned"
    /\ mPc' = "done"
    /\ UNCHANGED <<mOut, mTotal, mTemp, mIn>>
    /\ UNCHANGED <<segVars, queueVars, dlVars, lookVars>>

\* the except branch that leaves the temp file where it is
MergeError_keepTemp ==
    /\ mPc = "error"
    /\ mRes' = "raised"
    /\ mPc' = "done"
    /\ UNCHANGED <<mParts, mOut, mTotal, mTemp, mIn>>
    /\ UNCHANGED <<segVars, queueVars, dlVars, lookVars>>

\* the except branch: the temp file is removed, FileException raised
MergeError ==
    /\ mPc = "error"
    /\ mTemp' = NoFile
    /\ mRes' = "raised"
    /\ mPc' = "done"
    /\ UNCHANGED <<mParts, mOut, mTotal, mIn>>
    /\ UNCHANGED <<segVars, queueVars, dlVars, lookVars>>

(***************************************************************************)
(* Specifications                                                          *)
(***************************************************************************)
SegIdle ==
    /\ segTotal = 0 /\ segRanges = FALSE /\ segN = 1 /\ segOut = <<>>

MergeIdle ==
    /\ mParts = <<>> /\ mOut = NoFile /\ mRes = "none" /\ mTotal = -1
    /\ mPc = "idle" /\ mTemp = NoFile /\ mIn = <<>>
LookIdle == lookup = NoLookup

SpecSegInit == SegInit /\ QueueInit /\ DlIdle /\ MergeIdle /\ LookIdle
SpecSegNext == CreateSegments
SpecSeg == SpecSegInit /\ [][SpecSegNext]_vars

SpecQueueInit == SegIdle /\ QueueInit /\ DlIdle /\ MergeIdle /\ LookIdle
\* the queue with the staging directories its cancelled coordinators leave
SpecQueueStagingNext ==
    \/ AddDownload(MaxItems)
    \/ \E arg \in IdArgs : CancelDownload(arg)
    \/ \E arg \in IdArgs : RemoveDownload(arg)
    \/ \E arg \in IdArgs : PauseDownload(arg)
    \/ \E arg \in IdArgs : ResumeDownload(arg)
    \/ StartQueue
    \/ StopQueue
    \/ \E f \in CtorFailSets : ProcessQueue(f)
    \/ \E id \in ItemIds, reg \in BOOLEAN : TaskStart(id, reg)
    \/ \E id \in ItemIds, reg \in BOOLEAN : TaskComplete(id, reg)
    \/ \E id \in ItemIds, reg \in BOOLEAN : TaskFail(id, reg, "Download failed")
    \/ \E id \in ItemIds, reg \in BOOLEAN : TaskCancelled(id, reg)
    \/ Restart
SpecQueueStaging == SpecQueueInit /\ [][SpecQueueStagingNext]_vars

\* the queue alone: the staging directories are not followed
SpecQueueNext ==
    \/ AddDownload(MaxItems)
    \/ \E arg \in IdArgs : CancelDownload(arg)
    \/ \E arg \in IdArgs : RemoveDownload(arg)
    \/ \E arg \in IdArgs : PauseDownload(arg)
    \/ \E arg \in IdArgs : ResumeDownload(arg)
    \/ StartQueue
    \/ StopQueue /\ leaked' = leaked
    \/ \E f \in CtorFailSets : ProcessQueue(f)
    \/ \E id \in ItemIds, reg \in BOOLEAN : TaskStart(id, reg)
    \/ \E id \in ItemIds, reg \in BOOLEAN : TaskComplete(id, reg)
    \/ \E id \in ItemIds, reg \in BOOLEAN : TaskFail(id, reg, "Download failed")
    \/ \E id \in ItemIds, reg \in BOOLEAN : TaskCancelled(id, reg) /\ leaked' = leaked
    \/ Restart
SpecQueue == SpecQueueInit /\ [][SpecQueueNext]_vars

SpecDlInit == SegIdle /\ QueueInit /\ maxConcurrent = 1 /\ DlInit /\ MergeIdle /\ LookIdle
SpecDlNext ==
    \/ DownloadStart
    \/ \E i \in Segs, fault \in BOOLEAN : StreamerRequest(i, fault)
    \/ \E i \in Segs, c \in ChunkSizes, flush \in BOOLEAN, snap \in BOOLEAN :
          StreamerChunk(i, c, flush, snap)
    \/ \E i \in Segs, code \in {"401", "416"} : StreamerRejected(i, code)
    \/ \E i \in Segs : StreamerEnd(i)
    \/ \E i \in Segs : StreamerBodyError(i)
    \/ DownloadFinish
    \/ DownloadFail
    \/ \E inflight \in [Segs -> {0} \cup ChunkSizes] : Pause(inflight)
    \/ Cancel
    \/ QueuePause
    \/ PauseDownloaderTask
    \/ Resume
    \/ ResumeFinish
SpecDl == SpecDlInit /\ [][SpecDlNext]_vars

SpecMergeInit == SegIdle /\ QueueInit /\ maxConcurrent = 1 /\ DlIdle /\ MergeInit /\ LookIdle

\* the table with items added and removed, and lookups by id or id prefix
SpecLookupNext ==
    \/ AddDownload(Len(NewIds))
    \/ \E arg \in IdArgs : RemoveDownload(arg)
    \/ \E arg \in IdArgs : GetItem(arg)
SpecLookup == SpecQueueInit /\ [][SpecLookupNext]_vars
SpecMergeNext == \E ioError \in BOOLEAN : MergeParts(ioError)
SpecMerge == SpecMergeInit /\ [][SpecMergeNext]_vars

\* merge_parts called with the part-files of one download in some order
SpecMergeOrderInit == SegIdle /\ QueueInit /\ maxConcurrent = 1 /\ DlIdle /\ MergeOrderInit /\ LookIdle
SpecMergeOrder == SpecMergeOrderInit /\ [][SpecMergeNext]_vars

SpecMergeStepsNext ==
    \/ MergeBegin
    \/ \E ioError \in BOOLEAN, upto \in 0..MaxParts : MergeWrite(ioError, upto)
    \/ MergeVerify
    \/ \E ioError \in BOOLEAN : MergeRename(ioError)
    \/ MergeCleanup
    \/ MergeError
SpecMergeSteps == SpecMergeInit /\ [][SpecMergeStepsNext]_vars

\* One download paused and resumed from its session, the network without
\* error: what resume() finds on disk and makes of it
SpecResumeNext ==
    \/ DownloadStart
    \/ \E i \in Segs : StreamerRequest(i, FALSE)
    \/ \E i \in Segs, c \in ChunkSizes, flush \in BOOLEAN, snap \in BOOLEAN :
          StreamerChunk(i, c, flush, snap)
    \/ \E i \in Segs : StreamerEnd(i)
    \/ \E inflight \in [Segs -> {0} \cup ChunkSizes] : Pause(inflight)
    \/ Resume
SpecResume == SpecDlInit /\ [][SpecResumeNext]_vars

\* One download left to run, without pause or cancel, against a server that
\* may fail any request and any body.  The event loop runs every segment
\* task that is ready (weak fairness per task, and for the coordinator);
\* nothing is assumed about what the server answers.
StreamerStep(i) ==
    /\ i \in Segs
    /\ \/ \E fault \in BOOLEAN : StreamerRequest(i, fault)
       \/ \E c \in ChunkSizes, flush \in BOOLEAN, snap \in BOOLEAN :
             StreamerChunk(i, c, flush, snap)
       \/ \E code \in {"401", "416"} : StreamerRejected(i, code)
       \/ StreamerEnd(i)
       \/ StreamerBodyError(i)
SpecDlLiveNext ==
    \/ DownloadStart
    \/ \E i \in Segs, fault \in BOOLEAN : StreamerRequest(i, fault)
    \/ \E i \in Segs, c \in ChunkSizes, flush \in BOOLEAN, snap \in BOOLEAN :
          StreamerChunk(i, c, flush, snap)
    \/ \E i \in Segs, code \in {"401", "416"} : StreamerRejected(i, code)
    \/ \E i \in Segs : StreamerEnd(i)
    \/ \E i \in Segs : StreamerBodyError(i)
    \/ DownloadFinish
    \/ DownloadFail
SpecDlLive ==
    /\ SpecDlInit
    /\ [][SpecDlLiveNext]_vars
    /\ WF_vars(DownloadStart)
    /\ \A i \in 1..MaxDlConn : WF_vars(StreamerStep(i))

\* The queue left to run: downloads are added, the scheduler runs, every
\* download succeeds, and nobody pauses, cancels, removes, stops or restarts.
\* The event loop runs every task that is ready, hence weak fairness.
\* (a step of the queue's own tasks is taken whenever one stays possible;
\* nothing is assumed about the caller adding downloads).
QueueTaskStep ==
    \/ StartQueue
    \/ ProcessQueue({})
    \/ \E id \in ItemIds, reg \in BOOLEAN : TaskStart(id, reg)
    \/ \E id \in ItemIds, reg \in BOOLEAN : TaskComplete(id, reg)
SpecQueueLiveNext ==
    \/ AddDownload(LiveItems)
    \/ StartQueue
    \/ ProcessQueue({})
    \/ \E id \in ItemIds, reg \in BOOLEAN : TaskStart(id, reg)
    \/ \E id \in ItemIds, reg \in BOOLEAN : TaskComplete(id, reg)
SpecQueueLive ==
    /\ SpecQueueInit
    /\ [][SpecQueueLiveNext]_vars
    /\ WF_vars(QueueTaskStep)

\* The queue left to run while downloads fail: as above, but download() may
\* raise.  A coordinator task that is running ends one way or the other.
QueueFailStep ==
    \/ StartQueue
    \/ ProcessQueue({})
    \/ \E id \in ItemIds, reg \in BOOLEAN : TaskStart(id, reg)
    \/ \E id \in ItemIds, reg \in BOOLEAN : TaskComplete(id, reg)
    \/ \E id \in ItemIds, reg \in BOOLEAN, msg \in DownloadErrors : TaskFail(id, reg, msg)
SpecQueueFailNext ==
    \/ AddDownload(FailItems)
    \/ StartQueue
    \/ ProcessQueue({})
    \/ \E id \in ItemIds, reg \in BOOLEAN : TaskStart(id, reg)
    \/ \E id \in ItemIds, reg \in BOOLEAN : TaskComplete(id, reg)
    \/ \E id \in ItemIds, reg \in BOOLEAN, msg \in DownloadErrors : TaskFail(id, reg, msg)
SpecQueueFail ==
    /\ SpecQueueInit
    /\ [][SpecQueueFailNext]_vars
    /\ WF_vars(QueueFailStep)

(***************************************************************************)
(* Properties of the queue                                                 *)
(***************************************************************************)
NumStatus(st) == Cardinality({k \in 1..Len(db) : db[k].status = st})
\* coordinator tasks inside Downloader.download
NumRunning ==
    Cardinality({i \in DOMAIN tasks : tasks[i] = "running"})
    + SumOver(orphans, ItemIds \X {"running"})

\* C1: in every reachable state of the queue, restarts of the process
\* included, at most max_concurrent_downloads items have the stored status
\* 'downloading'.
C1_DownloadingAtMostK == NumStatus("downloading") <= maxConcurrent

\* C2: at every instant at most max_concurrent_downloads coordinator tasks
\* are running, whatever the interleaving of the scheduler with pause,
\* resume, cancel and remove.
C2_CoordinatorsAtMostK == NumRunning <= maxConcurrent

\* C3: with the queue started and left running and every download
\* succeeding, every submitted item eventually has the status 'completed'
\* (and keeps it): from some point on every row of the table is completed.
AllCompleted == \A k \in 1..Len(db) : db[k].status = "completed"
C3_AllComplete == <>[]AllCompleted
C3_Witness ==
    /\ used = LiveItems
    /\ isRunning
    /\ \A k \in 1..Len(db) : db[k].status = "completed"
    /\ tasks = EmptyFn

\* C4: whenever a download of known size S is reported completed (the
\* coordinator returned the destination path and the session is marked
\* completed), the destination file exists with size exactly S and neither a
\* part-file nor the staging directory remains.
C4_CompletedFileExact ==
    (dPc = "completed" /\ dSession.status = "completed") =>
        /\ dDest.exists
        /\ FileSize(dDest) = dTotal
        /\ \A i \in Segs : ~dParts[i].exists
        /\ ~dStaging

\* the file an uninterrupted download of the source produces: every offset
\* 0..S-1 once, in order
SourceData == <<<<0, dTotal - 1>>>>

\* C5: a multi-segment download that was paused and then resumed from its
\* session, with no network error and at least one byte per segment, ends
\* with a destination file byte-for-byte equal to the source.
C5_PauseResumeSameBytes ==
    (dPc = "completed" /\ dPauses > 0 /\ Len(dSegs) > 1 /\ dFaults = 0
        /\ dTotal >= dN) =>
        dDest.exists /\ dDest.data = SourceData

\* C6: at every moment of a download the sum over all segments of
\* segment.downloaded equals stats.downloaded.
C6_SumEqualsStats ==
    SumSeq([i \in Segs |-> dSegs[i].downloaded]) = dStats

\* C7: in every reachable state a closed-range segment's downloaded count
\* never exceeds end - start + 1.
C7_DownloadedWithinRange ==
    \A i \in Segs :
        dSegs[i].end # -1 => dSegs[i].downloaded <= expected_size(dSegs[i])


\* C21: a lookup by id prefix returns the item when exactly one id has the
\* prefix, reports not-found when none has, and reports ambiguity when two
\* or more have (it never returns one of several matches).
C21_PrefixLookup ==
    lookup.res # "none" =>
        /\ lookup.n = 0 => lookup.res = "not_found"
        /\ lookup.n = 1 => lookup.res = "found" /\ Like(lookup.id, lookup.arg)
        /\ lookup.n >= 2 => lookup.res = "ambiguous"

\* the stored status of the item id ("" when it has no row)
StatusOf(d, id) ==
    IF \E k \in 1..Len(d) : d[k].id = id
    THEN d[CHOOSE k \in 1..Len(d) : d[k].id = id].status ELSE ""
MessageOf(d, id) ==
    IF \E k \in 1..Len(d) : d[k].id = id
    THEN d[CHOOSE k \in 1..Len(d) : d[k].id = id].error_message ELSE ""

\* C22: when the coordinator of an item fails, the item is stored as
\* 'failed' with a non-empty error message and its slot is released; and the
\* scheduler keeps draining: every queued item is eventually started, so
\* that from some point on no row is 'queued'.
C22_FailureDrains ==
    /\ [][\A id \in ItemIds, msg \in DownloadErrors :
             TaskFail(id, TRUE, msg) =>
                 /\ StatusOf(db', id) = "failed"
                 /\ MessageOf(db', id) # ""
                 /\ id \notin active']_vars
    /\ <>[](\A k \in 1..Len(db) : db[k].status # "queued")
C22_Witness ==
    /\ maxConcurrent = 1
    /\ \E j, k \in 1..Len(db) :
          /\ j < k
          /\ db[j].status = "failed" /\ db[j].error_message # ""
          /\ db[j].id \notin active
          /\ db[k].status = "downloading" /\ db[k].id \in active

\* C23: every failed attempt of a segment task (the range request fails or
\* is rejected, or an error occurs while the body is streamed) adds one to
\* the retry count, and the task fails as soon as the count exceeds
\* max_retries.
C23_FailedAttemptCounted ==
    [][\A i \in Segs :
          (\/ StreamerRequest(i, TRUE)
           \/ \E code \in {"401", "416"} : StreamerRejected(i, code)
           \/ StreamerBodyError(i)) =>
              /\ dStr'[i].retry = dStr[i].retry + 1
              /\ dStr'[i].retry > MaxRetries => dStr'[i].pc = "failed"]_vars

\* C24: a download that is not paused ends its segment tasks: every one of
\* them eventually has completed its segment or failed.
C24_StreamerTerminates ==
    <>(dPc # "new" /\ \A i \in Segs : dStr[i].pc \in {"done", "failed"})

\* C25: a segment task that was running when its pause flag was set has
\* returned false: it is not left by an exception and is not running on.
C25_PauseReturnsFalse ==
    \A i \in Segs :
        (dSegs[i].is_paused /\ dStr[i].pc \notin {"none", "done", "failed"}) =>
            dStr[i].pc = "returned_false"

\* C26: a session whose status is 'completed' never changes status again
\* (resuming it leaves the record 'completed').
C26_CompletedIsFinal ==
    [][dSession.status = "completed" => dSession'.status = "completed"]_vars

\* C27: when resume re-measures the part-files, the progress of every
\* closed-range segment becomes min(part-file size, expected size), and a
\* segment task is started only for a segment that is not complete.
C27_RemeasureMin ==
    [][(Resume /\ dStaging) =>
          \A i \in 1..Len(dSegs') :
             /\ dSegs'[i].end # -1 =>
                   dSegs'[i].downloaded =
                       Min(FileSize(dParts[i]), expected_size(dSegs'[i]))
             /\ dStr'[i].pc = "top" => ~dSegs'[i].completed]_vars

\* a download that is started or turned away by the probe, and streams
SpecProbeNext ==
    \/ DownloadStart
    \/ \E cause \in ProbeFailures : DownloadRejected(cause)
    \/ \E i \in Segs : StreamerRequest(i, FALSE)
    \/ \E i \in Segs, c \in ChunkSizes, flush \in BOOLEAN, snap \in BOOLEAN :
          StreamerChunk(i, c, flush, snap)
    \/ \E i \in Segs : StreamerEnd(i)
SpecProbe == SpecDlInit /\ [][SpecProbeNext]_vars

\* C32: when the metadata probe fails with a network error, or the
\* free-space check fails for the staging or the destination directory, the
\* download ends with no segment task started, no staging directory and no
\* session record.
C32_RejectedLeavesNothing ==
    [][\A cause \in ProbeFailures : DownloadRejected(cause) =>
          /\ dStr' = <<>> /\ dSegs' = <<>> /\ dParts' = <<>>
          /\ ~dStaging'
          /\ ~dSession'.exists]_vars
C32_Witness ==
    dPc = "rejected" /\ ~dStaging /\ dSession = NoSession /\ dStr = <<>>

\* C28: when resume() has re-measured the part-files of a paused session,
\* the recorded aggregate downloaded (stats.downloaded) is the sum of the
\* sizes of the part-files it found, a missing one counting 0.
C28_StatsIsPartSum ==
    [][(Resume /\ dStaging /\ dSession.status = "paused") =>
          dStats' = SumSeq([i \in 1..Len(dParts) |-> FileSize(dParts[i])])]_vars
C28_Witness ==
    /\ dPc = "resuming" /\ dPauses > 0 /\ Len(dSegs) > 1
    /\ dStats = dAtPause /\ dStats > 0
    /\ dStats # dSession.downloaded

\* C15: every change of a queue item's stored status follows one of the edges
\* queued->downloading, downloading->completed|failed|cancelled|paused,
\* paused->queued.
C15_StatusEdges ==
    [][LET StatusEdges ==
              { <<"queued", "downloading">>, <<"downloading", "completed">>,
                <<"downloading", "failed">>, <<"downloading", "cancelled">>,
                <<"downloading", "paused">>, <<"paused", "queued">> }
       IN  \A k \in 1..Len(db), j \in 1..Len(db') :
              (db[k].id = db'[j].id /\ db[k].status # db'[j].status) =>
                  <<db[k].status, db'[j].status>> \in StatusEdges]_vars

\* C16: when a segment streamer has failed after exhausting its retries and
\* the download() or resume() call has ended, the download has failed: the
\* session is 'failed' and no destination file was produced.
C16_SegmentFailureFails ==
    ((\E i \in Segs : dStr[i].pc = "failed") /\ dPc \notin {"downloading", "resuming"}) =>
        dPc = "failed" /\ dSession.status = "failed" /\ ~dDest.exists

\* C17: a segment task that has received 401 or 416 performs no further
\* request (neither one that is answered nor one that fails), and no
\* destination file is produced.
C17_NoRetryAfterReject ==
    [][\A i \in Segs :
          (dStr[i].rej # "" /\ Len(dStr') = Len(dStr)) =>
              /\ ~(dStr[i].pc = "top" /\ dStr'[i].pc = "body")
              /\ ~(dStr[i].pc = "top" /\ dStr'[i].retry > dStr[i].retry)
              /\ ~dDest'.exists]_vars

\* C18: resuming a download that has completed changes nothing: the call
\* ends with the download still completed, the destination file as it was
\* and the session 'completed'.
C18_ResumeCompletedNoop ==
    [][dPc = "completed" =>
          dPc' = "completed" /\ dDest' = dDest /\ dSession'.status = "completed"]_vars

\* C19: when resume finds the staging directory absent or no part-file of
\* the segment list, the session record is deleted and no streamer started.
C19_BrokenSessionDeleted ==
    dPc = "broken" => ~dSession.exists /\ \A i \in Segs : dStr[i].pc = "none"

\* C20: when merge_parts, called with part-files that all exist and whose
\* lengths sum to L, returns normally, the output file exists and has
\* length L (otherwise it has raised).
C20_MergeLength ==
    mRes = "returned" => mOut.exists /\ FileSize(mOut) = mTotal
C20_Witness ==
    /\ mRes = "returned" /\ Len(mParts) = MaxParts
    /\ mOut.exists /\ FileSize(mOut) = MaxParts * MaxPartLen

\* C29: when a merge has failed, the temp file is gone, there is no file at
\* the output path, and every part-file is as it was when merge_parts was
\* called.
C29_FailedMergeLeavesParts ==
    mRes = "raised" =>
        /\ ~mTemp.exists
        /\ ~mOut.exists
        /\ mParts = mIn
C29_Witness ==
    /\ mRes = "raised" /\ mTotal = MaxParts * MaxPartLen
    /\ Len(mParts) = MaxParts
    /\ \A k \in 1..Len(mParts) : mParts[k].f.exists /\ FileSize(mParts[k].f) = MaxPartLen

\* C30: the steps of a merge come in the order write temp, verify, rename,
\* delete parts: the temp file is written first, the output appears only
\* by the rename of a verified temp file, and no part-file is deleted before
\* the output is in place.
C30_MergeOrder ==
    [][/\ (~mTemp.exists /\ mTemp'.exists) => (mPc = "write" /\ ~mOut.exists)
       /\ (~mOut.exists /\ mOut'.exists) =>
             /\ mPc = "rename" /\ mOut' = mTemp
             /\ verify_merge(sorted_parts(mParts), mTemp.data)
             /\ mParts = mIn
       /\ (\E k \in 1..Len(mParts) : mParts[k].f.exists /\ ~mParts'[k].f.exists) =>
             (mOut.exists /\ mPc = "cleanup")]_vars
C30_Witness ==
    /\ mPc = "done" /\ mRes = "returned" /\ Len(mIn) = MaxParts
    /\ \A k \in 1..Len(mParts) : ~mParts[k].f.exists /\ FileSize(mIn[k].f) > 0
    /\ mOut.exists /\ ~mTemp.exists

\* C31: in whatever order the part-files <filename>.part0 .. part<N-1> are
\* passed, the merged output is their concatenation in ascending segment
\* index: the source bytes 0..N-1 in order.
C31_MergedInIndexOrder ==
    mRes = "returned" => mOut.exists /\ mOut.data = <<<<0, Len(mIn) - 1>>>>
C31_Witness ==
    /\ mRes = "returned" /\ Len(mIn) = MaxOrderParts
    /\ mIn = OrderedParts(MaxOrderParts, NameOrder(MaxOrderParts))
    /\ mOut.data = <<<<0, MaxOrderParts - 1>>>>

\* bytes held in the part-files
PartBytes == SumSeq([i \in 1..Len(dParts) |-> FileSize(dParts[i])])

\* C13: once pause_download on a downloading item has been carried into its
\* coordinator (the _pause_downloader task has run), no further byte is
\* written to its part-files while the coordinator is in download().
C13_PausePropagates ==
    [][(dItemPaused = "handled" /\ dPc = "downloading") => PartBytes' <= PartBytes]_vars

\* C14: a download that was paused and resumed from its session, without
\* network error, has streamed after the resume exactly the bytes its
\* part-files did not hold at pause time: S minus their sizes.
C14_NoRefetch ==
    (dPc = "completed" /\ dPauses > 0 /\ dFaults = 0 /\ dTotal >= dN) =>
        dFetched = dTotal - dAtPause

\* C12: no queue item is 'completed' or 'cancelled' while a staging directory
\* of a coordinator that was cancelled for it still exists.
C12_NoStagingAfterEnd ==
    \A k \in 1..Len(db) :
        db[k].status \in {"completed", "cancelled"} => db[k].id \notin leaked

\* C11: after Downloader.pause() or Downloader.cancel() has completed, staging
\* directory and session record are either both gone (cancel) or the staging
\* directory is present and the session is 'paused' (pause).
C11_PauseCancelStates ==
    dPc \in {"paused", "cancelled"} =>
        \/ ~dStaging /\ ~dSession.exists
        \/ dStaging /\ dSession.exists /\ dSession.status = "paused"

(***************************************************************************)
(* Properties of the segmenter                                             *)
(***************************************************************************)
Created == segOut # <<>>

\* C8: for a known size S >= 1 and any connection count the segments
\* partition [0, S-1]: the first starts at 0, each starts right after the
\* previous one ends, each has start <= end, and the last ends at S-1.
C8_Partition ==
    (Created /\ segTotal >= 1) =>
        /\ segOut[1].start = 0
        /\ \A i \in 2..Len(segOut) : segOut[i].start = segOut[i - 1].end + 1
        /\ \A i \in 1..Len(segOut) : segOut[i].start <= segOut[i].end
        /\ segOut[Len(segOut)].end = segTotal - 1

\* C9: a file of 1 byte gets exactly one segment [0, 0] whatever the
\* requested connection count.
C9_SingleByte ==
    (Created /\ segTotal = 1) =>
        /\ Len(segOut) = 1
        /\ segOut[1].start = 0 /\ segOut[1].end = 0

\* C10: for a known size S, range support and N > 1 connections with
\* S >= N there are exactly N segments, the first N-1 of size floor(S/N) and
\* the last of size floor(S/N) + (S mod N).
C10_Sizes ==
    (Created /\ segRanges /\ segN > 1 /\ segTotal >= segN) =>
        /\ Len(segOut) = segN
        /\ \A i \in 1..(segN - 1) : SegSize(segOut[i]) = segTotal \div segN
        /\ SegSize(segOut[segN]) = (segTotal \div segN) + (segTotal % segN)
C10_Witness ==
    /\ Created /\ segRanges /\ segTotal = 10000001 /\ segN = 4
    /\ [i \in 1..4 |-> SegSize(segOut[i])] = <<2500000, 2500000, 2500000, 2500001>>

\* commands.py _resume_from_session, the checks made before the downloader
\* is rebuilt: the session is turned away when its staging directory is
\* missing or holds no part-file
session_broken == ~dStaging \/ \A i \in 1..Len(dParts) : ~dParts[i].exists

\* C33: after a download failed because a segment ran out of retries, the
\* session is 'failed', still holds its segment list, and a resume of it is
\* not turned away as broken (staging directory and a part-file are there).
C33_FailedIsResumable ==
    [][DownloadFail =>
          /\ dSession'.status = "failed"
          /\ Len(dSession'.segments) = Len(dSegs)
          /\ ~session_broken']_vars

\* the writes of the session record: create_session in download(),
\* _update_session_progress from the progress callback, _save_session_state
\* in pause()
SnapshotWritten ==
    \/ DownloadStart
    \/ \E i \in Segs, c \in ChunkSizes : StreamerChunk(i, c, TRUE, TRUE)
    \/ \E inflight \in [Segs -> {0} \cup ChunkSizes] : Pause(inflight)

\* C34: at every snapshot written to the session store (initial record,
\* periodic update, pause snapshot) the downloaded count of each persisted
\* segment equals the size of that segment's part-file.
C34_SnapshotMatchesParts ==
    [][SnapshotWritten =>
          \A i \in 1..Len(dSession'.segments) :
              dSession'.segments[i].downloaded = FileSize(dParts'[i])]_vars

\* what identifies a persisted segment: id, range and part-file path
SegmentKey(sg) == <<sg.id, sg.start, sg.end, sg.file_path>>

\* C35: once the session record exists, no later write (periodic update,
\* pause snapshot, resume, completion, failure) changes its destination
\* path, its staging path or the id, start, end and part-file path of any
\* of its segments.
C35_SessionFrame ==
    [][dSession.exists =>
          /\ dSession'.exists
          /\ dSession'.file_path = dSession.file_path
          /\ dSession'.temp_dir = dSession.temp_dir
          /\ Len(dSession'.segments) = Len(dSession.segments)
          /\ \A i \in 1..Len(dSession.segments) :
                SegmentKey(dSession'.segments[i]) = SegmentKey(dSession.segments[i])]_vars
C35_Witness ==
    /\ dPc = "resuming" /\ dSession.status = "active" /\ dPauses > 0
    /\ Len(dSession.segments) > 1
    /\ \E i \in 1..Len(dSession.segments) :
          dSession.segments[i].start > 0 /\ dSession.segments[i].downloaded > 0
    /\ dSession.file_path = "output_dir/filename" /\ dSession.temp_dir = "temp_dir"

\* C36: the part-file of a segment holds exactly the source bytes
\* start .. start + downloaded - 1, in increasing order, with no gap and no
\* range twice, after any chunk writes, connection drops with retry, pause
\* and resume.
C36_PartFileExact ==
    \A i \in Segs :
        dParts[i].exists =>
            dParts[i].data = IF dSegs[i].downloaded = 0 THEN <<>>
                             ELSE <<<<dSegs[i].start,
                                      dSegs[i].start + dSegs[i].downloaded - 1>>>>

\* the coordinator tasks of item id that are not done
Coordinators(id) ==
    (IF id \in DOMAIN tasks /\ tasks[id] \in LiveSt THEN 1 ELSE 0)
        + SumOver(orphans, {id} \X LiveSt)

\* C37: at every instant a queue item has at most one coordinator that is
\* not done, whatever the interleaving of pause_download, resume_download
\* and the scheduler loop.
C37_OneCoordinatorPerItem ==
    \A id \in ItemIds : Coordinators(id) <= 1

\* C38: every queue item whose stored status is 'downloading' has a live
\* coordinator task registered in _active_downloads/_download_tasks, and
\* every registered coordinator belongs to an item in 'downloading'; while
\* the scheduler runs, after stop_queue and after a restart of the process.
C38_DownloadingIffCoordinator ==
    /\ \A k \in 1..Len(db) :
          db[k].status = "downloading" =>
              /\ db[k].id \in active
              /\ db[k].id \in LiveRegistered(tasks)
    /\ \A id \in active \cup LiveRegistered(tasks) :
          \E k \in 1..Len(db) : db[k].id = id /\ db[k].status = "downloading"

\* C39: pause_download, resume_download and cancel_download called with a
\* unique proper prefix of an item id leave the same stored status as when
\* called with the full id, and a coordinator task is cancelled only if the
\* status update is applied as well.
C39_PrefixLikeFullId ==
    [][\A arg \in IdArgs : \A k \in 1..Len(db) :
          (MatchesIn(db, arg) = {k} /\ arg # db[k].id) =>
              /\ CancelDownload(arg) =>
                    /\ db' = update_item(db, db[k].id, "cancelled")
                    /\ (tasks' # tasks => db' # db)
              /\ PauseDownload(arg) => db' = update_item(db, db[k].id, "paused")
              /\ ResumeDownload(arg) => db' = update_item(db, db[k].id, "queued")]_vars

\* the ids of the rows of d
IdsOf(d) == {d[k].id : k \in 1..Len(d)}

\* C40: remove_download(id) removes at most one queue item, one that
\* get_item(id) resolves to, leaves every other record unchanged, and cancels
\* the running coordinator of the removed item, for a full id and for a
\* prefix alike.
C40_RemoveOne ==
    [][\A arg \in IdArgs :
          RemoveDownload(arg) =>
              /\ Len(db') >= Len(db) - 1
              /\ \A k \in 1..Len(db) :
                    IF db[k].id \in IdsOf(db')
                    THEN \E j \in 1..Len(db') : db'[j] = db[k]
                    ELSE /\ k \in MatchesIn(db, arg)
                         /\ db[k].id \in LiveRegistered(tasks) =>
                                tasks'[db[k].id] \notin {"new", "running"}]_vars

====
